---- MODULE Spec2Model ----
(***************************************************************************)
(* Model of the leaderboard back end (src/backend/models.py, src/app.py):  *)
(* the round/lap state machine RoundsConfig, the Submission table and the  *)
(* scoring done by Config.get_leaderboard_status.                          *)
(*                                                                         *)
(* Times are integers, in the unit of the timing fields of RoundsConfig.   *)
(* The wall clock is observed on a grid of one total overhead (the sum of  *)
(* the four timing fields).  Play delays are rational and are kept         *)
(* exactly, scaled by RandMod.  Scores are kept in halves of a point (1.0  *)
(* is 2, -0.5 is -1).                                                      *)
(***************************************************************************)
EXTENDS Integers, Sequences, FiniteSets, TLC

(***************************************************************************)
(* Bounds of the model.                                                    *)
(***************************************************************************)
MaxSteps == 6        \* the wall clock stops after this many steps
MaxScoringSteps == 4 \* the same, while the groups submit
MaxLog == 2          \* rows the Submission table may hold
MaxFineTime == 10    \* the wall clock stops here when it moves by units

(***************************************************************************)
(* Configuration: the fields of RoundsConfig and Config.                   *)
(***************************************************************************)
latency_margin == 1
delay_before_playing == 1
delay_after_playing == 1
sound_duration == 1
seed == 1234

total_overhead ==
  latency_margin + delay_before_playing + delay_after_playing + sound_duration

\* Values of RoundsConfig.rounds: two rounds of two laps, and three short
\* rounds, instead of the default five rounds of twenty laps.  A lap lasts
\* one or two total overheads.
TwoRounds ==
  << [lap_count |-> 2, lap_duration |-> total_overhead,
      only_check_for_presence |-> TRUE],
     [lap_count |-> 2, lap_duration |-> 2 * total_overhead,
      only_check_for_presence |-> FALSE] >>

ThreeRounds ==
  << [lap_count |-> 1, lap_duration |-> total_overhead,
      only_check_for_presence |-> TRUE],
     [lap_count |-> 2, lap_duration |-> total_overhead,
      only_check_for_presence |-> FALSE],
     [lap_count |-> 1, lap_duration |-> total_overhead,
      only_check_for_presence |-> FALSE] >>

\* Config.group_configs: the roster, in order.
group_configs ==
  << [key |-> "k1", name |-> "g1"], [key |-> "k2", name |-> "g2"] >>

\* Guess.possible_values(): the categories an answer is drawn from.
possible_values == << "birds", "chainsaw", "fire", "handsaw", "helicopter" >>

\* The members of the Guess enumeration.
Guess ==
  { "birds", "chainsaw", "fire", "handsaw", "helicopter",
    "nothing", "received", "disqualified" }

(***************************************************************************)
(* The random module: one global generator.  random.random() is modelled   *)
(* as a full-period linear congruential generator on 0..RandMod-1; a draw  *)
(* of state s is the number s / RandMod of [0, 1).                         *)
(***************************************************************************)
RandMod == 16

random_seed(a) == a % RandMod

random_next(s) == (5 * s + 3) % RandMod

\* The state after k draws.
RECURSIVE random_skip(_, _)
random_skip(s, k) == IF k = 0 THEN s ELSE random_skip(random_next(s), k - 1)

\* The k successive draws from state s, as numerators over RandMod.
random_draws(s, k) == [i \in 1..k |-> random_skip(s, i - 1)]

\* random.choices(population, k=k) from state s.
random_choices(population, s, k) ==
  [i \in 1..k |-> population[((random_draws(s, k)[i] * Len(population)) \div RandMod) + 1]]

(***************************************************************************)
(* Sequence helpers.                                                       *)
(***************************************************************************)
\* The laps of the first n rounds of rs.
RECURSIVE SumLaps(_, _)
SumLaps(rs, n) == IF n = 0 THEN 0 ELSE rs[n].lap_count + SumLaps(rs, n - 1)

\* Python's list[i]: a negative index counts from the end; the record says
\* whether the index is in range (otherwise IndexError is raised).
PyIndex(list, i) ==
  LET n == Len(list)
  IN  IF i >= 0 /\ i < n THEN [ok |-> TRUE, value |-> list[i + 1]]
      ELSE IF i < 0 /\ i >= -n THEN [ok |-> TRUE, value |-> list[n + i + 1]]
      ELSE [ok |-> FALSE, value |-> "IndexError"]

(***************************************************************************)
(* State.                                                                  *)
(***************************************************************************)
VARIABLES
  now,                    \* time.time(): the wall clock
  rounds,                 \* RoundsConfig fields, fixed at construction
  restart_when_finished,
  pause_between_rounds,
  start_paused,
  round_start_time,       \* RoundsConfig private attributes
  time_when_paused,
  paused,
  current_round,
  finished,
  answers,
  play_delays,
  submissions,            \* the Submission table, in insertion (id) order
  random_state,           \* the state of the global random generator
  active_time,            \* history: unpaused wall-clock time since the
                          \* current round started
  caller_pc,              \* per concurrent caller of get_current_lap: the
                          \* line it is at, or "idle"
  caller_lap,             \* its local current_lap
  caller_round            \* history: the round it saw end

vars ==
  << now, rounds, restart_when_finished, pause_between_rounds, start_paused,
     round_start_time, time_when_paused, paused, current_round, finished,
     answers, play_delays, submissions, random_state, active_time,
     caller_pc, caller_lap, caller_round >>

\* The objects an operation works on, as one record.
World ==
  [ rounds |-> rounds,
    restart_when_finished |-> restart_when_finished,
    pause_between_rounds |-> pause_between_rounds,
    start_paused |-> start_paused,
    round_start_time |-> round_start_time,
    time_when_paused |-> time_when_paused,
    paused |-> paused,
    current_round |-> current_round,
    finished |-> finished,
    answers |-> answers,
    play_delays |-> play_delays,
    submissions |-> submissions,
    random_state |-> random_state,
    active_time |-> active_time ]

\* The objects become w.
Assign(w) ==
  /\ rounds' = w.rounds
  /\ restart_when_finished' = w.restart_when_finished
  /\ pause_between_rounds' = w.pause_between_rounds
  /\ start_paused' = w.start_paused
  /\ round_start_time' = w.round_start_time
  /\ time_when_paused' = w.time_when_paused
  /\ paused' = w.paused
  /\ current_round' = w.current_round
  /\ finished' = w.finished
  /\ answers' = w.answers
  /\ play_delays' = w.play_delays
  /\ submissions' = w.submissions
  /\ random_state' = w.random_state
  /\ active_time' = w.active_time

\* The state after an operation that runs alone and leaves the objects as w.
Becomes(w) ==
  /\ Assign(w)
  /\ UNCHANGED << caller_pc, caller_lap, caller_round >>

(***************************************************************************)
(* RoundsConfig.  Every operator takes the objects w and the value t that  *)
(* time.time() returns during the call.                                    *)
(***************************************************************************)
get_number_of_rounds(w) == Len(w.rounds)

get_current_number_of_laps(w) == w.rounds[w.current_round + 1].lap_count

time(w, t) == IF w.paused THEN w.time_when_paused ELSE t

elapsed_time(w, t) == time(w, t) - w.round_start_time

play(w, t) ==
  IF ~w.paused THEN w
  ELSE [w EXCEPT !.round_start_time = @ + (t - w.time_when_paused),
                 !.paused = FALSE]

\* pause() without the test of line 187.
pause_stamps_again(w, t) ==
  [w EXCEPT !.time_when_paused = t, !.paused = TRUE]

pause(w, t) ==
  IF w.paused THEN w
  ELSE [w EXCEPT !.time_when_paused = t, !.paused = TRUE]

\* The schedule restart() draws from generator state s.
new_answers(rs, s) ==
  [r \in 1..Len(rs) |->
     random_choices(possible_values, random_skip(s, SumLaps(rs, r - 1)),
                    rs[r].lap_count)]

\* Play delays drawn over the whole lap: total is not subtracted.
new_play_delays_over_whole_lap(rs, s) ==
  [r \in 1..Len(rs) |->
     [i \in 1..rs[r].lap_count |->
        delay_before_playing * RandMod
        + random_draws(random_skip(s, SumLaps(rs, Len(rs)) + SumLaps(rs, r - 1)),
                       rs[r].lap_count)[i]
          * rs[r].lap_duration]]

\* Play delays without start: random.random() * (lap_duration - total).
new_play_delays_without_start(rs, s) ==
  [r \in 1..Len(rs) |->
     [i \in 1..rs[r].lap_count |->
        random_draws(random_skip(s, SumLaps(rs, Len(rs)) + SumLaps(rs, r - 1)),
                     rs[r].lap_count)[i]
          * (rs[r].lap_duration - total_overhead)]]

\* Play delays, scaled by RandMod:
\* start + random.random() * (lap_duration - total).
new_play_delays(rs, s) ==
  [r \in 1..Len(rs) |->
     [i \in 1..rs[r].lap_count |->
        delay_before_playing * RandMod
        + random_draws(random_skip(s, SumLaps(rs, Len(rs)) + SumLaps(rs, r - 1)),
                       rs[r].lap_count)[i]
          * (rs[r].lap_duration - total_overhead)]]

\* restart() without Submission.clear().
restart_keeps_submissions(w, t) ==
  LET w1 == [w EXCEPT !.answers = new_answers(w.rounds, w.random_state),
                      !.play_delays =
                         new_play_delays(w.rounds, w.random_state),
                      !.random_state =
                         random_skip(w.random_state,
                                     2 * SumLaps(w.rounds, Len(w.rounds))),
                      !.round_start_time = t,
                      !.time_when_paused = t,
                      !.paused = TRUE,
                      !.current_round = 0,
                      !.finished = FALSE,
                      !.active_time = 0]
  IN  IF ~w.start_paused THEN play(w1, t) ELSE w1

\* restart() without the play() of lines 148-149.
restart_stays_paused(w, t) ==
  [w EXCEPT !.submissions = << >>,
            !.answers = new_answers(w.rounds, w.random_state),
            !.play_delays = new_play_delays(w.rounds, w.random_state),
            !.random_state =
               random_skip(w.random_state,
                           2 * SumLaps(w.rounds, Len(w.rounds))),
            !.round_start_time = t,
            !.time_when_paused = t,
            !.paused = TRUE,
            !.current_round = 0,
            !.finished = FALSE,
            !.active_time = 0]

restart(w, t) ==
  LET w1 == [w EXCEPT !.submissions = << >>,
                      !.answers = new_answers(w.rounds, w.random_state),
                      !.play_delays =
                         new_play_delays(w.rounds, w.random_state),
                      !.random_state =
                         random_skip(w.random_state,
                                     2 * SumLaps(w.rounds, Len(w.rounds))),
                      !.round_start_time = t,
                      !.time_when_paused = t,
                      !.paused = TRUE,
                      !.current_round = 0,
                      !.finished = FALSE,
                      !.active_time = 0]
  IN  IF ~w.start_paused THEN play(w1, t) ELSE w1

\* get_current_lap() that reports the lap count, not the last lap, once
\* finished.
get_current_lap_past_last_lap(w, t) ==
  LET elapsed == time(w, t) - w.round_start_time
      lap_duration == w.rounds[w.current_round + 1].lap_duration
      current_lap == elapsed \div lap_duration
  IN  IF current_lap >= get_current_number_of_laps(w)
      THEN IF w.current_round + 1 = get_number_of_rounds(w)
           THEN IF w.restart_when_finished
                THEN [w |-> restart(w, t), value |-> 0]
                ELSE [w |-> pause([w EXCEPT !.finished = TRUE], t),
                      value |-> get_current_number_of_laps(w)]
           ELSE LET w1 == [w EXCEPT !.current_round = @ + 1,
                                    !.round_start_time = t,
                                    !.active_time = 0]
                IN  [w |-> IF w.pause_between_rounds THEN pause(w1, t) ELSE w1,
                     value |-> 0]
      ELSE [w |-> w, value |-> current_lap]

\* get_current_lap: the objects after the call and the value returned.
get_current_lap(w, t) ==
  LET elapsed == time(w, t) - w.round_start_time
      lap_duration == w.rounds[w.current_round + 1].lap_duration
      current_lap == elapsed \div lap_duration
  IN  IF current_lap >= get_current_number_of_laps(w)
      THEN IF w.current_round + 1 = get_number_of_rounds(w)
           THEN IF w.restart_when_finished
                THEN [w |-> restart(w, t), value |-> 0]
                ELSE [w |-> pause([w EXCEPT !.finished = TRUE], t),
                      value |-> get_current_number_of_laps(w) - 1]
           ELSE LET w1 == [w EXCEPT !.current_round = @ + 1,
                                    !.round_start_time = t,
                                    !.active_time = 0]
                IN  [w |-> IF w.pause_between_rounds THEN pause(w1, t) ELSE w1,
                     value |-> 0]
      ELSE [w |-> w, value |-> current_lap]

\* The wall clock moves on by dt.
elapse(w, dt) ==
  IF w.paused THEN w ELSE [w EXCEPT !.active_time = @ + dt]

\* get_current_correct_guess: the answers list and the round are read
\* before get_current_lap() runs, the lap indexes the row read before.
get_current_correct_guess(w, t) ==
  LET row == w.answers[w.current_round + 1]
      r == get_current_lap(w, t)
      x == PyIndex(row, r.value)
  IN  [w |-> r.w, ok |-> x.ok, value |-> x.value]

\* get_current_play_delay, scaled by RandMod; evaluated like
\* get_current_correct_guess.
get_current_play_delay(w, t) ==
  LET row == w.play_delays[w.current_round + 1]
      r == get_current_lap(w, t)
      x == PyIndex(row, r.value)
  IN  [w |-> r.w, ok |-> x.ok, value |-> x.value]

get_current_time_within_lap(w, t) ==
  (time(w, t) - w.round_start_time) % w.rounds[w.current_round + 1].lap_duration

time_before_next_lap(w, t) ==
  IF w.finished THEN 0
  ELSE LET elapsed == time(w, t) - w.round_start_time
           lap_duration == w.rounds[w.current_round + 1].lap_duration
       IN  lap_duration - (elapsed % lap_duration)

\* time_before_playing, scaled by RandMod: elapsed and lap_duration are read
\* before get_current_play_delay() runs.
time_before_playing(w, t) ==
  IF w.finished THEN [w |-> w, ok |-> TRUE, value |-> -1 * RandMod]
  ELSE LET elapsed == time(w, t) - w.round_start_time
           lap_duration == w.rounds[w.current_round + 1].lap_duration
           d == get_current_play_delay(w, t)
       IN  [w |-> d.w, ok |-> d.ok,
            value |-> IF d.ok
                      THEN d.value - (elapsed % lap_duration) * RandMod
                      ELSE 0]

\* accepts_submissions: the time within the lap is read before
\* get_current_play_delay() runs get_current_lap().  Both sides of the
\* comparisons are scaled by RandMod.
accepts_submissions(w, t) ==
  LET current_time == get_current_time_within_lap(w, t) * RandMod
      d == get_current_play_delay(w, t)
  IN  [w |-> d.w, ok |-> d.ok,
       value |-> /\ d.ok
                 /\ d.value <= current_time
                 /\ current_time
                      <= d.value + (sound_duration + latency_margin) * RandMod]

(***************************************************************************)
(* Submission: the rows are [key, round, lap, guess, disqualified,         *)
(* timestamp], kept in the order of their ids.                             *)
(***************************************************************************)
\* The rows of one slot, in id order.
slot_rows(log, key, round, lap) ==
  LET match(e) == e.key = key /\ e.round = round /\ e.lap = lap
  IN  SelectSeq(log, match)

\* ORDER BY timestamp DESC.  SQL leaves the order of rows with equal
\* timestamps open: ties is "asc" (by id) or "desc".
order_by_timestamp_desc(f, ties) ==
  LET before(j, i) ==
        \/ f[j].timestamp > f[i].timestamp
        \/ /\ f[j].timestamp = f[i].timestamp
           /\ IF ties = "asc" THEN j < i ELSE j > i
      pos(i) == 1 + Cardinality({j \in 1..Len(f) : before(j, i)})
  IN  [p \in 1..Len(f) |-> f[CHOOSE i \in 1..Len(f) : pos(i) = p]]

\* get_submissions() that sorts the oldest row first.
get_submissions_oldest_first(log, key, round, lap, ties) ==
  LET f == order_by_timestamp_desc(slot_rows(log, key, round, lap), ties)
      guesses == [i \in 1..Len(f) |-> f[Len(f) + 1 - i]]
  IN  IF Len(guesses) > 0
      THEN [i \in 1..Len(guesses) |-> guesses[i].guess]
      ELSE << "nothing" >>

get_submissions(log, key, round, lap, ties) ==
  LET guesses == order_by_timestamp_desc(slot_rows(log, key, round, lap), ties)
  IN  IF Len(guesses) > 0
      THEN [i \in 1..Len(guesses) |-> guesses[i].guess]
      ELSE << "nothing" >>

is_disqualified(log, key, round, lap) ==
  LET disqualified == slot_rows(log, key, round, lap)
  IN  \E i \in 1..Len(disqualified) : disqualified[i].disqualified

(***************************************************************************)
(* Config.get_leaderboard_status.                                          *)
(***************************************************************************)
\* The loop body with the presence-only test ahead of the disqualification
\* test.
lap_answer_presence_first(w, key, round_read, lap_read, lap, correct_answer, ties) ==
  LET subs == get_submissions(w.submissions, key, round_read, lap, ties)
      guess == subs[Len(subs)]
      hide == lap > lap_read
  IN  IF w.rounds[w.current_round + 1].only_check_for_presence
      THEN IF guess /= "nothing"
           THEN [guess |-> "received", correct |-> TRUE, hide |-> hide,
                 points |-> 2]
           ELSE [guess |-> guess, correct |-> FALSE, hide |-> hide,
                 points |-> 0]
      ELSE IF is_disqualified(w.submissions, key, round_read, lap)
      THEN [guess |-> "disqualified", correct |-> FALSE, hide |-> hide,
            points |-> -1]
      ELSE [guess |-> guess, correct |-> (guess = correct_answer),
            hide |-> hide,
            points |-> IF guess = correct_answer THEN 2 ELSE 0]

\* The loop body that hides the current lap too.
lap_answer_hides_current_lap(w, key, round_read, lap_read, lap, correct_answer, ties) ==
  LET subs == get_submissions(w.submissions, key, round_read, lap, ties)
      guess == subs[Len(subs)]
      hide == lap >= lap_read
  IN  IF is_disqualified(w.submissions, key, round_read, lap)
      THEN [guess |-> "disqualified", correct |-> FALSE, hide |-> hide,
            points |-> -1]
      ELSE IF w.rounds[w.current_round + 1].only_check_for_presence
      THEN IF guess /= "nothing"
           THEN [guess |-> "received", correct |-> TRUE, hide |-> hide,
                 points |-> 2]
           ELSE [guess |-> guess, correct |-> FALSE, hide |-> hide,
                 points |-> 0]
      ELSE [guess |-> guess, correct |-> (guess = correct_answer),
            hide |-> hide,
            points |-> IF guess = correct_answer THEN 2 ELSE 0]

\* One pass of the loop over the laps: the Answer and what it adds to the
\* score (in halves of a point).
lap_answer(w, key, round_read, lap_read, lap, correct_answer, ties) ==
  LET subs == get_submissions(w.submissions, key, round_read, lap, ties)
      guess == subs[Len(subs)]
      hide == lap > lap_read
  IN  IF is_disqualified(w.submissions, key, round_read, lap)
      THEN [guess |-> "disqualified", correct |-> FALSE, hide |-> hide,
            points |-> -1]
      ELSE IF w.rounds[w.current_round + 1].only_check_for_presence
      THEN IF guess /= "nothing"
           THEN [guess |-> "received", correct |-> TRUE, hide |-> hide,
                 points |-> 2]
           ELSE [guess |-> guess, correct |-> FALSE, hide |-> hide,
                 points |-> 0]
      ELSE [guess |-> guess, correct |-> (guess = correct_answer),
            hide |-> hide,
            points |-> IF guess = correct_answer THEN 2 ELSE 0]

RECURSIVE SumPoints(_, _)
SumPoints(a, n) == IF n = 0 THEN 0 ELSE a[n].points + SumPoints(a, n - 1)

leaderboard_row(w, group_config, round_read, lap_read, correct_answers, ties) ==
  LET a == [i \in 1..Len(correct_answers) |->
              lap_answer(w, group_config.key, round_read, lap_read,
                         i - 1, correct_answers[i], ties)]
  IN  [name |-> group_config.name,
       answers |-> [i \in 1..Len(a) |->
                      [guess |-> a[i].guess, correct |-> a[i].correct,
                       hide |-> a[i].hide]],
       score |-> SumPoints(a, Len(a))]

\* The calls of get_leaderboard_status that reach the RoundsConfig, lines
\* 407 to 415.  time.time() returns t1 in the call of line 407, t2 in the
\* call of line 409 and t3 from line 413 on.  raised is the exception that
\* ends the call early; w is the RoundsConfig the call leaves.
status_reads(w, t1, t2, t3) ==
  LET g == get_current_correct_guess(w, t1)
      wa == elapse(g.w, t2 - t1)
      l == get_current_lap(wa, t2)
      wb == elapse(l.w, t3 - t2)
      p == time_before_playing(wb, t3)
  IN  IF ~g.ok THEN [w |-> g.w, raised |-> "IndexError"]
      ELSE IF ~p.ok THEN [w |-> p.w, raised |-> "IndexError"]
      ELSE [w |-> p.w, raised |-> "None",
            current_correct_guess |-> g.value,
            current_round |-> wa.current_round,
            current_lap |-> l.value,
            number_of_laps |-> get_current_number_of_laps(l.w),
            paused |-> l.w.paused,
            time_before_next_lap |-> time_before_next_lap(wb, t3),
            time_before_playing |-> p.value,
            finished |-> p.w.finished]

\* get_leaderboard_status: the status returned, or the exception raised.
\* LeaderboardStatus refuses a negative current_lap (conint(ge=0)).
get_leaderboard_status(w, t1, t2, t3, ties) ==
  LET c == status_reads(w, t1, t2, t3)
      correct_answers == c.w.answers[c.w.current_round + 1]
  IN  IF c.raised /= "None" THEN [raised |-> c.raised]
      ELSE IF c.current_lap < 0 THEN [raised |-> "ValidationError"]
      ELSE [raised |-> "None",
            current_correct_guess |-> c.current_correct_guess,
            current_round |-> c.current_round,
            current_lap |-> c.current_lap,
            number_of_rounds |-> get_number_of_rounds(c.w),
            number_of_laps |-> c.number_of_laps,
            paused |-> c.paused,
            time_before_next_lap |-> c.time_before_next_lap,
            time_before_playing |-> c.time_before_playing,
            finished |-> c.finished,
            leaderboard |->
              [i \in 1..Len(group_configs) |->
                 leaderboard_row(c.w, group_configs[i], c.current_round,
                                 c.current_lap, correct_answers, ties)]]

(***************************************************************************)
(* Start-up: app.py builds the Config (RoundsConfig.__init__ seeds the     *)
(* generator) and calls rounds_config.restart().                           *)
(***************************************************************************)
\* A RoundsConfig right after __init__, before restart() has set the
\* private attributes.
constructed(rs, rwf, pbr, sp) ==
  [ rounds |-> rs,
    restart_when_finished |-> rwf,
    pause_between_rounds |-> pbr,
    start_paused |-> sp,
    round_start_time |-> 0,
    time_when_paused |-> 0,
    paused |-> TRUE,
    current_round |-> 0,
    finished |-> FALSE,
    answers |-> << >>,
    play_delays |-> << >>,
    submissions |-> << >>,
    random_state |-> random_seed(seed),
    active_time |-> 0 ]

\* The callers of update_leaderboard: the periodic task and the connect
\* handler.
Callers == { "task", "connect" }

\* The state after start-up at time 0.
Started(rs, rwf, pbr, sp) ==
  /\ now = 0
  /\ caller_pc = [c \in Callers |-> "idle"]
  /\ caller_lap = [c \in Callers |-> 0]
  /\ caller_round = [c \in Callers |-> 0]
  /\ LET w == restart(constructed(rs, rwf, pbr, sp), 0)
     IN  /\ rounds = w.rounds
         /\ restart_when_finished = w.restart_when_finished
         /\ pause_between_rounds = w.pause_between_rounds
         /\ start_paused = w.start_paused
         /\ round_start_time = w.round_start_time
         /\ time_when_paused = w.time_when_paused
         /\ paused = w.paused
         /\ current_round = w.current_round
         /\ finished = w.finished
         /\ answers = w.answers
         /\ play_delays = w.play_delays
         /\ submissions = w.submissions
         /\ random_state = w.random_state
         /\ active_time = w.active_time

\* Two rounds under every setting of the three flags, and three rounds
\* that run on without pauses.
Init ==
  \/ \E rwf \in BOOLEAN, pbr \in BOOLEAN, sp \in BOOLEAN :
       Started(TwoRounds, rwf, pbr, sp)
  \/ Started(ThreeRounds, FALSE, FALSE, FALSE)

(***************************************************************************)
(* Operations.                                                             *)
(***************************************************************************)
\* The wall clock advances by one step of the grid.
TimeStep == total_overhead

AdvanceTimeTo(steps) ==
  /\ now < steps * TimeStep
  /\ now' = now + TimeStep
  /\ Becomes(elapse(World, TimeStep))

AdvanceTime == AdvanceTimeTo(MaxSteps)

\* A caller asks for the current lap.
GetCurrentLap ==
  LET r == get_current_lap(World, now)
  IN  /\ Becomes(r.w)
      /\ now' = now

Pause ==
  /\ Becomes(pause(World, now))
  /\ now' = now

Play ==
  /\ Becomes(play(World, now))
  /\ now' = now

Restart ==
  /\ Becomes(restart(World, now))
  /\ now' = now

\* update_leaderboard (src/app.py): the periodic task and the connect
\* handler compute a status and emit it; what stays is what the call did to
\* the RoundsConfig.  The wall clock may advance by one step while the status
\* is computed.
UpdateLeaderboardTo(steps) ==
  \E t2 \in {now, now + TimeStep}, t3 \in {now, now + TimeStep} :
    /\ t2 <= t3
    /\ t3 <= steps * TimeStep
    /\ Becomes(status_reads(World, now, t2, t3).w)
    /\ now' = t3

UpdateLeaderboard == UpdateLeaderboardTo(MaxSteps)

\* The submit route: a group's guess is appended for the lap in progress.
\* The route does not touch the RoundsConfig.
Submit(key, guess, disqualified) ==
  LET lap == (time(World, now) - round_start_time)
               \div rounds[current_round + 1].lap_duration
  IN  /\ lap >= 0
      /\ lap < rounds[current_round + 1].lap_count
      /\ submissions' =
           Append(submissions,
                  [key |-> key, round |-> current_round, lap |-> lap,
                   guess |-> guess, disqualified |-> disqualified,
                   timestamp |-> now])
      /\ UNCHANGED << now, rounds, restart_when_finished, pause_between_rounds,
                      start_paused, round_start_time, time_when_paused,
                      paused, current_round, finished, answers, play_delays,
                      random_state, active_time, caller_pc, caller_lap,
                      caller_round >>

\* In Spec one group submits one kind of guess, once.
SubmitOnce ==
  /\ Len(submissions) < 1
  /\ Submit(group_configs[1].key, possible_values[1], FALSE)

Next ==
  \/ AdvanceTime
  \/ GetCurrentLap
  \/ Pause
  \/ Play
  \/ Restart
  \/ UpdateLeaderboard
  \/ SubmitOnce

Spec == Init /\ [][Next]_vars

(***************************************************************************)
(* Scoring: a competition that runs on without pauses, while the groups    *)
(* submit guesses and disqualifications are recorded.                      *)
(***************************************************************************)
\* The guesses the groups submit.
SubmitGuesses == { possible_values[1], possible_values[2] }

\* The first group submits any of them, disqualified or not; the other
\* groups submit the first one.
SubmitAny ==
  /\ Len(submissions) < MaxLog
  /\ \E i \in 1..Len(group_configs), guess \in SubmitGuesses,
        disqualified \in BOOLEAN :
       /\ i > 1 => (guess = possible_values[1] /\ ~disqualified)
       /\ Submit(group_configs[i].key, guess, disqualified)

InitScoring == Started(TwoRounds, FALSE, FALSE, FALSE)

NextScoring ==
  \/ AdvanceTimeTo(MaxScoringSteps)
  \/ UpdateLeaderboardTo(MaxScoringSteps)
  \/ SubmitAny

SpecScoring == InitScoring /\ [][NextScoring]_vars

(***************************************************************************)
(* Concurrent callers: update_leaderboard runs in the scheduler's worker   *)
(* and in the connect handler, and get_current_lap takes no lock.  Each    *)
(* caller runs get_current_lap line by line.  app.py patches the thread    *)
(* module (eventlet.monkey_patch(thread=True, time=True)), so the callers  *)
(* are green threads: one runs until it makes a call that can block.       *)
(***************************************************************************)
\* Every line of get_current_lap: where a thread the operating system
\* pre-empts can be switched out.
every_line == { "197", "202", "204", "212", "213" }

\* The lines of get_current_lap at which a green thread can be switched out:
\* line 205, restart(), starts with Submission.clear(), a database call.
switch_points == IF restart_when_finished THEN { "204" } ELSE { }

\* Caller c holds the processor: every other caller is outside
\* get_current_lap or waits at a switch point.
CanRun(c) ==
  \A o \in Callers \ {c} : caller_pc[o] \in {"idle"} \cup switch_points

\* The caller enters get_current_lap.
Enter(c) ==
  /\ caller_pc[c] = "idle"
  /\ CanRun(c)
  /\ caller_pc' = [caller_pc EXCEPT ![c] = "197"]
  /\ UNCHANGED << now, rounds, restart_when_finished, pause_between_rounds,
                  start_paused, round_start_time, time_when_paused, paused,
                  current_round, finished, answers, play_delays, submissions,
                  random_state, active_time, caller_lap, caller_round >>

\* Lines 197 to 200: current_lap is computed; rounds[current_round] raises
\* IndexError when the round index is past the last round.
Line197(c) ==
  /\ caller_pc[c] = "197"
  /\ CanRun(c)
  /\ IF current_round >= Len(rounds)
     THEN /\ caller_pc' = [caller_pc EXCEPT ![c] = "idle"]
          /\ UNCHANGED caller_lap
     ELSE /\ caller_lap' =
               [caller_lap EXCEPT ![c] =
                  (time(World, now) - round_start_time)
                    \div rounds[current_round + 1].lap_duration]
          /\ caller_pc' = [caller_pc EXCEPT ![c] = "202"]
  /\ UNCHANGED << now, rounds, restart_when_finished, pause_between_rounds,
                  start_paused, round_start_time, time_when_paused, paused,
                  current_round, finished, answers, play_delays, submissions,
                  random_state, active_time, caller_round >>

\* Lines 202 and 203: the tests.
Line202(c) ==
  /\ caller_pc[c] = "202"
  /\ CanRun(c)
  /\ IF current_round >= Len(rounds)
     THEN /\ caller_pc' = [caller_pc EXCEPT ![c] = "idle"]
          /\ UNCHANGED caller_round
     ELSE IF caller_lap[c] >= rounds[current_round + 1].lap_count
     THEN /\ caller_round' = [caller_round EXCEPT ![c] = current_round]
          /\ caller_pc' =
               [caller_pc EXCEPT ![c] =
                  IF current_round + 1 = Len(rounds) THEN "204" ELSE "212"]
     ELSE /\ caller_pc' = [caller_pc EXCEPT ![c] = "idle"]
          /\ UNCHANGED caller_round
  /\ UNCHANGED << now, rounds, restart_when_finished, pause_between_rounds,
                  start_paused, round_start_time, time_when_paused, paused,
                  current_round, finished, answers, play_delays, submissions,
                  random_state, active_time, caller_lap >>

\* Lines 204 to 210: the last round has ended.
Line204(c) ==
  /\ caller_pc[c] = "204"
  /\ CanRun(c)
  /\ Assign(IF restart_when_finished THEN restart(World, now)
            ELSE pause([World EXCEPT !.finished = TRUE], now))
  /\ caller_pc' = [caller_pc EXCEPT ![c] = "idle"]
  /\ UNCHANGED << now, caller_lap, caller_round >>

\* Line 212: current_round += 1.
Line212(c) ==
  /\ caller_pc[c] = "212"
  /\ CanRun(c)
  /\ current_round' = current_round + 1
  /\ caller_pc' = [caller_pc EXCEPT ![c] = "213"]
  /\ UNCHANGED << now, rounds, restart_when_finished, pause_between_rounds,
                  start_paused, round_start_time, time_when_paused, paused,
                  finished, answers, play_delays, submissions, random_state,
                  active_time, caller_lap, caller_round >>

\* Lines 213 to 218: the new round starts now.
Line213(c) ==
  /\ caller_pc[c] = "213"
  /\ CanRun(c)
  /\ LET w1 == [World EXCEPT !.round_start_time = now, !.active_time = 0]
     IN  Assign(IF pause_between_rounds THEN pause(w1, now) ELSE w1)
  /\ caller_pc' = [caller_pc EXCEPT ![c] = "idle"]
  /\ UNCHANGED << now, caller_lap, caller_round >>

\* The wall clock advances while the callers run.
Tick ==
  /\ now < MaxSteps * TimeStep
  /\ now' = now + TimeStep
  /\ Assign(elapse(World, TimeStep))
  /\ UNCHANGED << caller_pc, caller_lap, caller_round >>

InitConcurrent ==
  \E rwf \in BOOLEAN, pbr \in BOOLEAN : Started(TwoRounds, rwf, pbr, FALSE)

NextConcurrent ==
  \/ Tick
  \/ \E c \in Callers :
       \/ Enter(c)
       \/ Line197(c)
       \/ Line202(c)
       \/ Line204(c)
       \/ Line212(c)
       \/ Line213(c)

SpecConcurrent == InitConcurrent /\ [][NextConcurrent]_vars

(***************************************************************************)
(* The clock observed unit by unit: what a caller sees in the middle of a  *)
(* lap and shortly after the end of a round.                               *)
(***************************************************************************)
TickUnit ==
  /\ now < MaxFineTime
  /\ now' = now + 1
  /\ Becomes(elapse(World, 1))

\* A request handler asks whether submissions are accepted.
AcceptsSubmissions ==
  /\ accepts_submissions(World, now).ok
  /\ Becomes(accepts_submissions(World, now).w)
  /\ UNCHANGED now

InitWindow ==
  \/ \E pbr \in BOOLEAN : Started(ThreeRounds, FALSE, pbr, FALSE)
  \/ Started(TwoRounds, TRUE, FALSE, TRUE)

NextWindow ==
  \/ TickUnit
  \/ GetCurrentLap
  \/ Pause
  \/ Play
  \/ AcceptsSubmissions

SpecWindow == InitWindow /\ [][NextWindow]_vars

(***************************************************************************)
(* Construction: Config.parse_file builds the RoundsConfig from the values *)
(* of the configuration file; the root validator validate_timing runs      *)
(* once, there.  The rounds offered have laps one unit shorter than the    *)
(* total overhead, equal to it, and one unit longer.                       *)
(***************************************************************************)
\* validate_timing that refuses a lap as long as the total overhead.
validate_timing_refuses_equal(rs) ==
  IF \A r \in 1..Len(rs) : rs[r].lap_duration > total_overhead
  THEN "None"
  ELSE "ValidationError"

\* validate_timing: the exception construction ends with.
validate_timing(rs) ==
  IF \A r \in 1..Len(rs) : rs[r].lap_duration >= total_overhead
  THEN "None"
  ELSE "ValidationError"

\* The rounds a configuration file may hold.
OfferedRound ==
  [ lap_count : {1, 2},
    lap_duration : { total_overhead - 1, total_overhead, total_overhead + 1 },
    only_check_for_presence : {FALSE} ]

OfferedRounds ==
  { << r >> : r \in OfferedRound }
    \cup { << r1, r2 >> : r1 \in OfferedRound, r2 \in OfferedRound }

\* The object exists: start-up has drawn its schedule.
IsConstructed == answers /= << >>

\* Before construction: the values of the file, and no schedule.
InitConstruct ==
  \E rs \in OfferedRounds, sp \in BOOLEAN :
    /\ now = 0
    /\ caller_pc = [c \in Callers |-> "idle"]
    /\ caller_lap = [c \in Callers |-> 0]
    /\ caller_round = [c \in Callers |-> 0]
    /\ LET w == constructed(rs, FALSE, FALSE, sp)
       IN  /\ rounds = w.rounds
           /\ restart_when_finished = w.restart_when_finished
           /\ pause_between_rounds = w.pause_between_rounds
           /\ start_paused = w.start_paused
           /\ round_start_time = w.round_start_time
           /\ time_when_paused = w.time_when_paused
           /\ paused = w.paused
           /\ current_round = w.current_round
           /\ finished = w.finished
           /\ answers = w.answers
           /\ play_delays = w.play_delays
           /\ submissions = w.submissions
           /\ random_state = w.random_state
           /\ active_time = w.active_time

\* Construction and the restart() of start-up; when validate_timing raises
\* there is no object and nothing runs.
Construct ==
  /\ ~IsConstructed
  /\ validate_timing(rounds) = "None"
  /\ Becomes(restart(World, now))
  /\ UNCHANGED now

TickUnitConstructed == IsConstructed /\ TickUnit

GetCurrentLapConstructed == IsConstructed /\ GetCurrentLap

RestartConstructed == IsConstructed /\ Restart

NextConstruct ==
  \/ Construct
  \/ TickUnitConstructed
  \/ GetCurrentLapConstructed
  \/ RestartConstructed

SpecConstruct == InitConstruct /\ [][NextConstruct]_vars

(***************************************************************************)
(* Properties.                                                             *)
(***************************************************************************)
\* The values time.time() may return at lines 409 and 413 of a
\* get_leaderboard_status call that starts now.
StatusCalls ==
  { tt \in {now, now + TimeStep} \X {now, now + TimeStep} :
      tt[1] <= tt[2] /\ tt[2] <= MaxSteps * TimeStep }

TieOrders == { "asc", "desc" }

LastRound == Len(rounds) - 1

\* The active time of the current round has reached its end.
RoundOver ==
  elapsed_time(World, now) >=
    rounds[current_round + 1].lap_count * rounds[current_round + 1].lap_duration

\* C1: the round index is always inside the schedule and every value
\* get_current_lap() returns is a lap of the round it leaves current,
\* 0 <= l <= lap_count - 1, also when pause() came between a round's end and
\* the call that resolves it.
C1_PositionInsideSchedule ==
  /\ current_round \in 0..LastRound
  /\ LET r == get_current_lap(World, now)
     IN  /\ r.w.current_round \in 0..LastRound
         /\ r.value \in 0..(rounds[r.w.current_round + 1].lap_count - 1)

\* C2: in a round that is not the last, without pause between rounds, a
\* get_current_lap() call made once lap_count * lap_duration of active time
\* has elapsed advances the round by exactly one and returns 0; a call made
\* with elapsed < lap_count * lap_duration returns floor(elapsed /
\* lap_duration) and leaves the round index alone.
C2_LapRollover ==
  (current_round < LastRound /\ ~pause_between_rounds) =>
    LET n == rounds[current_round + 1].lap_count
        d == rounds[current_round + 1].lap_duration
        r == get_current_lap(World, now)
    IN  /\ active_time >= n * d =>
             (r.w.current_round = current_round + 1 /\ r.value = 0)
        /\ elapsed_time(World, now) < n * d =>
             /\ r.value = elapsed_time(World, now) \div d
             /\ r.w.current_round = current_round

\* What every query reports once the competition has finished.
FinishedReported ==
  LET r == get_current_lap(World, now)
      last_lap == rounds[LastRound + 1].lap_count - 1
  IN  /\ current_round = LastRound
      /\ r.w.finished
      /\ r.w.current_round = LastRound
      /\ r.value = last_lap
      /\ \A tt \in StatusCalls, ties \in TieOrders :
           LET st == get_leaderboard_status(World, now, tt[1], tt[2], ties)
           IN  /\ st.raised = "None"
               /\ st.finished
               /\ st.current_round = LastRound
               /\ st.current_lap = last_lap

\* C3: with restart_when_finished = false, the get_current_lap() call made
\* with the last round over, and every later query, report finished = true,
\* the last round and its last lap; finished stays true under ticks, pause()
\* and play() until restart() is called.
C3_FinishedIsFrozen ==
  /\ [](finished => (~restart_when_finished /\ current_round = LastRound))
  /\ []((~restart_when_finished /\ current_round = LastRound
           /\ (finished \/ RoundOver))
          => FinishedReported)
  /\ [][(finished /\ ~Restart) => finished']_vars

\* C3: finished, and play() has been called since.
C3_Witness ==
  /\ finished
  /\ ~paused
  /\ now > round_start_time

\* C4: with restart_when_finished = true, the get_current_lap() call that
\* crosses the end of the last round restarts: it returns 0 and leaves round
\* 0, finished = false, an empty Submission table and a schedule drawn anew;
\* finished is never true.
C4_RestartWhenFinished ==
  restart_when_finished =>
    /\ ~finished
    /\ (current_round = LastRound /\ RoundOver) =>
         LET r == get_current_lap(World, now)
         IN  /\ r.value = 0
             /\ r.w.current_round = 0
             /\ ~r.w.finished
             /\ r.w.submissions = << >>
             /\ r.w.answers = new_answers(rounds, random_state)
             /\ r.w.play_delays = new_play_delays(rounds, random_state)
             /\ r.w.random_state =
                  random_skip(random_state, 2 * SumLaps(rounds, Len(rounds)))
             /\ elapsed_time(r.w, now) = 0

\* C4: the last round is over with a submission in the table, and the call
\* empties it.
C4_Witness ==
  /\ restart_when_finished
  /\ current_round = LastRound
  /\ RoundOver
  /\ Len(submissions) > 0
  /\ get_current_lap(World, now).w.submissions = << >>
  /\ get_current_lap(World, now).w.answers /= answers

\* C5: the elapsed time of the current round is the wall-clock time since
\* the round started minus the time spent paused.
C5_PausableStopwatch ==
  elapsed_time(World, now) = active_time

\* C6: every schedule generated for the same rounds and seed is the same:
\* the one drawn right after seeding.
C6_ScheduleDeterminism ==
  /\ answers = new_answers(rounds, random_seed(seed))
  /\ play_delays = new_play_delays(rounds, random_seed(seed))

\* C7: every status is computed from one (round, lap) pair: the correct
\* guess, the number of laps and the rows are those of the reported round
\* and lap.  Stated for the calls during which the wall clock stands still.
C7_ConsistentSnapshot ==
  \A ties \in TieOrders :
    LET c == status_reads(World, now, now, now)
        st == get_leaderboard_status(World, now, now, now, ties)
    IN  st.raised = "None" =>
          /\ st.current_correct_guess =
               c.w.answers[st.current_round + 1][st.current_lap + 1]
          /\ st.number_of_laps = rounds[st.current_round + 1].lap_count
          /\ st.leaderboard =
               [i \in 1..Len(group_configs) |->
                  leaderboard_row(c.w, group_configs[i], st.current_round,
                                  st.current_lap,
                                  c.w.answers[st.current_round + 1], ties)]

\* The caller has seen a round end and has not yet returned.
InBranch(c) == caller_pc[c] \in { "204", "212", "213" }

DistinctTimestamps(rows) ==
  \A j \in 1..Len(rows), k \in 1..Len(rows) :
    j /= k => rows[j].timestamp /= rows[k].timestamp

\* The guess of the row submitted first.
FirstGuess(rows) ==
  rows[CHOOSE j \in 1..Len(rows) :
         \A k \in 1..Len(rows) : rows[j].timestamp <= rows[k].timestamp].guess

RECURSIVE ScoreOf(_, _, _)
ScoreOf(a, dq, n) ==
  IF n = 0 THEN 0
  ELSE (IF dq[n] THEN -1 ELSE IF a[n].correct THEN 2 ELSE 0)
       + ScoreOf(a, dq, n - 1)

\* C10: in every status, a slot with a submission that carries the
\* disqualified flag has guess = disqualified and correct = false and adds
\* exactly -0.5 to the score, whatever the slot's submissions are and
\* whether or not the round is presence-only.
C10_DisqualificationDominates ==
  \A tt \in StatusCalls, ties \in TieOrders :
    LET c == status_reads(World, now, tt[1], tt[2])
        st == get_leaderboard_status(World, now, tt[1], tt[2], ties)
    IN  st.raised = "None" =>
          \A i \in 1..Len(group_configs) :
            LET a == st.leaderboard[i].answers
                dq == [n \in 1..Len(a) |->
                         is_disqualified(c.w.submissions, group_configs[i].key,
                                         st.current_round, n - 1)]
            IN  /\ \A n \in 1..Len(a) :
                     dq[n] => (a[n].guess = "disqualified" /\ ~a[n].correct)
                /\ st.leaderboard[i].score = ScoreOf(a, dq, Len(a))

\* C10: a slot of a presence-only round holds a disqualified submission and
\* another one, and the status shows the slot disqualified.
C10_Witness ==
  \E i \in 1..Len(group_configs), lap \in 0..1 :
    LET rows == slot_rows(submissions, group_configs[i].key, current_round, lap)
        st == get_leaderboard_status(World, now, now, now, "asc")
    IN  /\ rounds[current_round + 1].only_check_for_presence
        /\ Len(rows) = 2
        /\ ~rows[1].disqualified /\ rows[2].disqualified
        /\ st.raised = "None"
        /\ st.current_round = current_round
        /\ st.leaderboard[i].answers[lap + 1].guess = "disqualified"
        /\ st.leaderboard[i].score = -1

\* C11: in every status, for every group, the answer of lap i is hidden iff
\* i is greater than the status's current_lap; a status that reports
\* finished hides no answer.
C11_HiddenAnswers ==
  \A tt \in StatusCalls :
    LET st == get_leaderboard_status(World, now, tt[1], tt[2], "asc")
    IN  st.raised = "None" =>
          \A i \in 1..Len(group_configs) :
            LET a == st.leaderboard[i].answers
            IN  /\ Len(a) > 0
                /\ \A n \in 1..Len(a) : a[n].hide <=> (n - 1 > st.current_lap)
                /\ st.finished => \A n \in 1..Len(a) : ~a[n].hide

\* C11: in the second round, a status shows the answer of lap 0 and hides
\* that of lap 1.
C11_Witness ==
  LET st == get_leaderboard_status(World, now, now, now, "asc")
  IN  /\ st.raised = "None"
      /\ st.current_round = 1
      /\ st.current_lap = 0
      /\ \A i \in 1..Len(group_configs) :
           /\ Len(st.leaderboard[i].answers) = 2
           /\ ~st.leaderboard[i].answers[1].hide
           /\ st.leaderboard[i].answers[2].hide

\* C11: a status reports finished, the last of two laps, and hides nothing.
C11_WitnessFinished ==
  LET st == get_leaderboard_status(World, now, now, now, "asc")
  IN  /\ st.raised = "None"
      /\ st.finished
      /\ st.current_lap = 1
      /\ ~st.leaderboard[1].answers[2].hide

\* What accepts_submissions() has to return at time now: the window test
\* on the position get_current_lap() resolves, play offset and time within
\* the lap both taken for that round and lap.
WindowOpen ==
  LET r == get_current_lap(World, now)
      lap_duration == rounds[r.w.current_round + 1].lap_duration
      play_offset == r.w.play_delays[r.w.current_round + 1][r.value + 1]
      time_within_lap == (elapsed_time(r.w, now) % lap_duration) * RandMod
  IN  /\ play_offset <= time_within_lap
      /\ time_within_lap
           <= play_offset + (sound_duration + latency_margin) * RandMod

\* C12: accepts_submissions() returns true iff play_offset <=
\* time_within_lap <= play_offset + sound_duration + latency_margin, with
\* the play offset of the current lap of the current round and the elapsed
\* time of that round modulo its lap duration, also when the call resolves a
\* round transition.
C12_SubmissionWindow ==
  LET r == get_current_lap(World, now)
      a == accepts_submissions(World, now)
  IN  r.value \in 0..(rounds[r.w.current_round + 1].lap_count - 1) =>
        /\ a.ok
        /\ a.value <=> WindowOpen

\* C13: construction fails when a round has lap_duration below the sum of
\* the four timing fields, so no object ever has such a round; it succeeds
\* when every round has lap_duration >= the sum, the sum itself included.
C13_LapDurationValidation ==
  /\ (\E r \in 1..Len(rounds) : rounds[r].lap_duration < total_overhead)
       => (validate_timing(rounds) = "ValidationError" /\ ~IsConstructed)
  /\ (\A r \in 1..Len(rounds) : rounds[r].lap_duration >= total_overhead)
       => validate_timing(rounds) = "None"

\* C13: an object with a lap exactly as long as the total overhead was
\* constructed and has run.
C13_Witness ==
  /\ IsConstructed
  /\ now > 0
  /\ \E r \in 1..Len(rounds) : rounds[r].lap_duration = total_overhead

\* C14: pause() called while paused and play() called while running change
\* nothing: the paused flag, the round start reference, the frozen time, the
\* round index, the finished flag and the schedule stay as they are.
C14_RedundantPausePlay ==
  /\ paused => pause(World, now) = World
  /\ ~paused => play(World, now) = World

\* C14: the clock has been paused for a while, in a later round.
C14_Witness ==
  /\ paused
  /\ now > time_when_paused
  /\ current_round > 0

\* C15: two consecutive get_current_lap() calls with no time advance and
\* nothing in between return the same lap, and the second changes no state.
C15_GetCurrentLapIdempotent ==
  LET first == get_current_lap(World, now)
      second == get_current_lap(first.w, now)
  IN  /\ second.value = first.value
      /\ second.w = first.w

C17_PauseBetweenRounds ==
  pause_between_rounds =>
    LET r == get_current_lap(World, now)
        lap_duration == rounds[current_round + 1].lap_duration
    IN  /\ (current_round < LastRound /\ RoundOver) =>
             /\ r.value = 0
             /\ r.w.current_round = current_round + 1
             /\ r.w.paused
             /\ elapsed_time(r.w, now) = 0
        /\ (current_round > 0 /\ paused /\ active_time = 0) =>
             (r.value = 0 /\ r.w = World)
        /\ (current_round > 0 /\ r.w.current_round = current_round
              /\ ~r.w.finished) =>
             r.value = active_time \div lap_duration

\* C18: after any restart() every round has exactly lap_count play offsets,
\* and every play offset p of a round satisfies delay_before_playing <= p <=
\* lap_duration - latency_margin - delay_after_playing - sound_duration: the
\* submission window that starts at p, followed by delay_after_playing, ends
\* no later than the lap.  (Offsets are scaled by RandMod.)
C18_PlayOffsetRange ==
  IsConstructed =>
    /\ Len(play_delays) = Len(rounds)
    /\ \A r \in 1..Len(rounds) :
         /\ Len(play_delays[r]) = rounds[r].lap_count
         /\ \A i \in 1..rounds[r].lap_count :
              LET p == play_delays[r][i]
              IN  /\ delay_before_playing * RandMod <= p
                  /\ p <= (rounds[r].lap_duration - latency_margin
                             - delay_after_playing - sound_duration) * RandMod
                  /\ p + (sound_duration + latency_margin
                            + delay_after_playing) * RandMod
                       <= rounds[r].lap_duration * RandMod

\* C18: after a second restart() a play offset lies strictly after
\* delay_before_playing.
C18_Witness ==
  /\ IsConstructed
  /\ random_state /= random_skip(random_seed(seed),
                                 2 * SumLaps(rounds, Len(rounds)))
  /\ \E r \in 1..Len(rounds) : \E i \in 1..rounds[r].lap_count :
       play_delays[r][i] > delay_before_playing * RandMod

\* C19, as claimed: every generated play offset p satisfies
\* delay_before_playing <= p < lap_duration - total_overhead.
C19_PlayOffsetHalfOpen ==
  IsConstructed =>
    \A r \in 1..Len(rounds) : \A i \in 1..rounds[r].lap_count :
      /\ delay_before_playing * RandMod <= play_delays[r][i]
      /\ play_delays[r][i]
           < (rounds[r].lap_duration - total_overhead) * RandMod

\* C19, amended: every generated play offset p is delay_before_playing plus
\* a draw of [0, lap_duration - total_overhead): delay_before_playing <= p <
\* delay_before_playing + (lap_duration - total_overhead) when lap_duration >
\* total_overhead, and p = delay_before_playing when they are equal.
C19_PlayOffsetAfterStart ==
  IsConstructed =>
    \A r \in 1..Len(rounds) : \A i \in 1..rounds[r].lap_count :
      LET p == play_delays[r][i]
          slack == rounds[r].lap_duration - total_overhead
      IN  /\ delay_before_playing * RandMod <= p
          /\ slack > 0 => p < (delay_before_playing + slack) * RandMod
          /\ slack = 0 => p = delay_before_playing * RandMod

\* C19: a round without slack and a round with slack, in which a play
\* offset is at or after lap_duration - total_overhead.
C19_Witness ==
  /\ IsConstructed
  /\ Len(rounds) = 2
  /\ rounds[1].lap_duration = total_overhead
  /\ rounds[2].lap_duration > total_overhead
  /\ \E i \in 1..rounds[2].lap_count :
       play_delays[2][i]
         >= (rounds[2].lap_duration - total_overhead) * RandMod

\* C20: in a status of a round with only_check_for_presence, a slot without
\* a disqualified submission has guess = received and correct = true (1.0
\* more in the score) iff the slot's effective guess is not nothing, and
\* guess = nothing and correct = false otherwise, whatever the schedule's
\* answer for the lap is.
C20_PresenceOnlyScoring ==
  \A tt \in StatusCalls, ties \in TieOrders :
    LET c == status_reads(World, now, tt[1], tt[2])
        st == get_leaderboard_status(World, now, tt[1], tt[2], ties)
    IN  ( /\ st.raised = "None"
          /\ rounds[st.current_round + 1].only_check_for_presence )
        => \A i \in 1..Len(group_configs) :
             LET a == st.leaderboard[i].answers
                 key == group_configs[i].key
                 dq == [n \in 1..Len(a) |->
                          is_disqualified(c.w.submissions, key,
                                          st.current_round, n - 1)]
             IN  /\ \A n \in 1..Len(a) :
                      LET subs == get_submissions(c.w.submissions, key,
                                                  st.current_round, n - 1, ties)
                      IN  ~dq[n] =>
                            IF subs[Len(subs)] /= "nothing"
                            THEN a[n].guess = "received" /\ a[n].correct
                            ELSE a[n].guess = "nothing" /\ ~a[n].correct
                 /\ st.leaderboard[i].score = ScoreOf(a, dq, Len(a))

\* The same for the statuses computed while the wall clock stands still.
PresenceOnlyScoringClockStill ==
  \A ties \in TieOrders :
    LET c == status_reads(World, now, now, now)
        st == get_leaderboard_status(World, now, now, now, ties)
    IN  ( /\ st.raised = "None"
          /\ rounds[st.current_round + 1].only_check_for_presence )
        => \A i \in 1..Len(group_configs) :
             LET a == st.leaderboard[i].answers
                 key == group_configs[i].key
             IN  \A n \in 1..Len(a) :
                   LET subs == get_submissions(c.w.submissions, key,
                                               st.current_round, n - 1, ties)
                   IN  ~is_disqualified(c.w.submissions, key,
                                        st.current_round, n - 1) =>
                         IF subs[Len(subs)] /= "nothing"
                         THEN a[n].guess = "received" /\ a[n].correct
                         ELSE a[n].guess = "nothing" /\ ~a[n].correct

\* C21: every status has one row per group of the roster, in roster order,
\* and the answers of each row are as many as the number_of_laps the status
\* reports, which is the lap count of the current_round it reports, also
\* when a round transition or a restart is resolved during the call.
C21_LeaderboardShape ==
  \A tt \in StatusCalls :
    LET st == get_leaderboard_status(World, now, tt[1], tt[2], "asc")
    IN  st.raised = "None" =>
          /\ Len(st.leaderboard) = Len(group_configs)
          /\ \A i \in 1..Len(group_configs) :
               /\ st.leaderboard[i].name = group_configs[i].name
               /\ Len(st.leaderboard[i].answers) = st.number_of_laps
          /\ st.number_of_laps = rounds[st.current_round + 1].lap_count

\* The same for the statuses computed while the wall clock stands still.
LeaderboardShapeClockStill ==
  LET st == get_leaderboard_status(World, now, now, now, "asc")
  IN  st.raised = "None" =>
        /\ Len(st.leaderboard) = Len(group_configs)
        /\ \A i \in 1..Len(group_configs) :
             /\ st.leaderboard[i].name = group_configs[i].name
             /\ Len(st.leaderboard[i].answers) = st.number_of_laps
        /\ st.number_of_laps = rounds[st.current_round + 1].lap_count

\* C22: the elapsed time of the current round, time() minus the round start
\* reference, is never negative, also after a round transition resolved
\* while the clock is paused and after the play() that follows it.
C22_ElapsedNeverNegative ==
  elapsed_time(World, now) >= 0

====
